---------------------------- MODULE Spec2Model ----------------------------
(***************************************************************************)
(* Belief consolidation pipeline of podcast-belief-matrix:                 *)
(*   BeliefMerger (src/src/belief_merger.py)  duplicate detection and the  *)
(*                                            three consolidation policies *)
(*   BeliefLinker (src/src/belief_linker.py)  parent-hint resolution and   *)
(*                                            hierarchy statistics         *)
(*   BeliefGraph (src/src/belief_graph.py)    the directed belief graph    *)
(*   BeliefGraphMetrics (src/src/belief_graph_metrics.py)  graph metrics   *)
(*   MultiLevelExtractor (src/src/multilevel_extractor.py)  the collection *)
(*                                            of the classified chunks     *)
(*                                                                         *)
(* A belief collection (a pandas DataFrame with a RangeIndex, which is     *)
(* what every producer in the repository returns) is a sequence of belief  *)
(* records; row position p of the model is pandas position p-1.            *)
(*                                                                         *)
(* A text is the set of words it is made of.  Words 0 and -1 are English   *)
(* stop words, the words 1, 2, ... are the n-gram features TfidfVectorizer  *)
(* extracts. The empty set is a blank text (None, NaN, '' or whitespace).   *)
(* Scores are hundredths: 85 is 0.85.                                      *)
(***************************************************************************)
EXTENDS Integers, Sequences, FiniteSets, TLC

\* ------------------------------------------------------------------ bounds
MaxBeliefs == 4
MaxLinkBeliefs == 3
MaxMergeBeliefs == 4

\* ------------------------------------------------------- program constants
DefaultDedupThreshold == 85
DefaultLinkThreshold == 60
MergerMaxFeatures == 1000
LinkerMaxFeatures == 500
MaxImportance == 10

NoId == 0
StopWord == 0
OtherStopWord == -1
Blank == {}

\* ------------------------------------------------------------ sequences
Range(s) == {s[i] : i \in DOMAIN s}

Min(S) == CHOOSE x \in S : \A y \in S : x <= y

RECURSIVE SortedSeq(_)
\* the members of a set of integers in ascending order
SortedSeq(S) ==
    IF S = {} THEN <<>>
    ELSE LET m == Min(S) IN <<m>> \o SortedSeq(S \ {m})

RECURSIVE Insert(_, _)
Insert(x, s) ==
    IF s = <<>> THEN <<x>>
    ELSE IF x <= Head(s) THEN <<x>> \o s
    ELSE <<Head(s)>> \o Insert(x, Tail(s))

RECURSIVE Sorted(_)
\* Python's sorted() on a list of integers
Sorted(s) == IF s = <<>> THEN <<>> ELSE Insert(Head(s), Sorted(Tail(s)))

RECURSIVE SumSeq(_)
SumSeq(s) == IF s = <<>> THEN 0 ELSE Head(s) + SumSeq(Tail(s))

Abs(x) == IF x < 0 THEN -x ELSE x

Max(S) == CHOOSE x \in S : \A y \in S : y <= x

\* --------------------------------------------- TfidfVectorizer and cosine
\* The features of a text: its words without the stop words.
Features(text) == text \ {StopWord, OtherStopWord}

\* The vectorizer of one instance: whether it was ever fitted, and the
\* vocabulary of its last successful fit.
NewVectorizer == [fitted |-> FALSE, vocabulary_ |-> {}]

CorpusFeatures(texts) == UNION {Features(texts[i]) : i \in DOMAIN texts}

\* fit_transform raises ValueError (empty vocabulary) when no text of the
\* corpus has a feature.
FitFails(texts) == CorpusFeatures(texts) = {}

\* The vocabulary fit_transform learns from the corpus: every feature, up
\* to max_features of them (the lowest-numbered stand for the most frequent).
FitVocabulary(texts, max_features) ==
    LET all == CorpusFeatures(texts)
    IN  IF Cardinality(all) <= max_features THEN all
        ELSE {t \in all : Cardinality({u \in all : u < t}) < max_features}

\* a vectorizer that keeps the vocabulary of its first fit (transform without
\* refit)
FitTransformOnce(vectorizer, texts, max_features) ==
    IF FitFails(texts) \/ vectorizer.fitted THEN vectorizer
    ELSE [fitted |-> TRUE, vocabulary_ |-> FitVocabulary(texts, max_features)]

\* fit_transform: the vectorizer after the call (unchanged when it raises)
FitTransform(vectorizer, texts, max_features) ==
    IF FitFails(texts) THEN vectorizer
    ELSE [fitted |-> TRUE, vocabulary_ |-> FitVocabulary(texts, max_features)]

\* Row of the term matrix for a text under a vocabulary (term presence; the
\* idf reweighting and l2 normalisation leave the support unchanged).
Vector(text, vocabulary) == Features(text) \cap vocabulary

Dot(a, b) == Cardinality(a \cap b)
NormSq(a) == Cardinality(a)

\* cosine_similarity(a, b) >= t/100 ; a zero row has similarity 0 to all
CosineGE(a, b, t) ==
    IF NormSq(a) = 0 \/ NormSq(b) = 0 THEN 0 >= t
    ELSE \/ t <= 0
         \/ (100 * Dot(a, b)) * (100 * Dot(a, b)) >= t * t * NormSq(a) * NormSq(b)

\* cosine_similarity(a, b) > cosine_similarity(a, c)
CosineGT(a, b, c) ==
    LET zb == NormSq(a) = 0 \/ NormSq(b) = 0
        zc == NormSq(a) = 0 \/ NormSq(c) = 0
    IN  IF zb THEN FALSE
        ELSE IF zc THEN Dot(a, b) > 0
        ELSE Dot(a, b) * Dot(a, b) * NormSq(c) > Dot(a, c) * Dot(a, c) * NormSq(b)


\* ---------------------------------------------------------- BeliefMerger
\* BeliefMerger.__init__
NewMerger(similarity_threshold) ==
    [similarity_threshold |-> similarity_threshold, vectorizer |-> NewVectorizer]

Statements(df) == [i \in DOMAIN df |-> df[i].statement_text]

\* a similarity row in which no belief is similar to itself
SimilarIndicesNoSelf(df, vocabulary, threshold, i) ==
    {j \in DOMAIN df \ {i} :
        CosineGE(Vector(df[i].statement_text, vocabulary),
                 Vector(df[j].statement_text, vocabulary), threshold)}

\* np.where(similarity_matrix[i] >= threshold)[0]
SimilarIndices(df, vocabulary, threshold, i) ==
    {j \in DOMAIN df :
        CosineGE(Vector(df[i].statement_text, vocabulary),
                 Vector(df[j].statement_text, vocabulary), threshold)}

RECURSIVE GreedyScanKeepProcessed(_, _, _, _, _, _)
\* the scan without the "if idx not in processed" filter of the group
GreedyScanKeepProcessed(df, vocabulary, threshold, i, groups, processed) ==
    IF i > Len(df) THEN groups
    ELSE IF i \in processed
         THEN GreedyScanKeepProcessed(df, vocabulary, threshold, i + 1, groups, processed)
    ELSE LET similar_indices == SimilarIndices(df, vocabulary, threshold, i)
             group == SortedSeq(similar_indices)
         IN  IF Cardinality(similar_indices) > 1
             THEN GreedyScanKeepProcessed(df, vocabulary, threshold, i + 1,
                             Append(groups, group), processed \cup Range(group))
             ELSE GreedyScanKeepProcessed(df, vocabulary, threshold, i + 1,
                             groups, processed)

RECURSIVE GreedyScanDescending(_, _, _, _, _, _)
\* the scan taking the anchors from the last row to the first
GreedyScanDescending(df, vocabulary, threshold, i, groups, processed) ==
    LET row == Len(df) + 1 - i
    IN  IF i > Len(df) THEN groups
        ELSE IF row \in processed
        THEN GreedyScanDescending(df, vocabulary, threshold, i + 1, groups, processed)
        ELSE LET similar_indices == SimilarIndices(df, vocabulary, threshold, row)
                 group == SortedSeq(similar_indices \ processed)
             IN  IF Cardinality(similar_indices) > 1 /\ Len(group) > 1
                 THEN GreedyScanDescending(df, vocabulary, threshold, i + 1,
                                 Append(groups, group), processed \cup Range(group))
                 ELSE GreedyScanDescending(df, vocabulary, threshold, i + 1,
                                 groups, processed)

RECURSIVE GreedyScan(_, _, _, _, _, _)
\* the loop "for i in range(len(df))" of _find_duplicates, from row i on
GreedyScan(df, vocabulary, threshold, i, groups, processed) ==
    IF i > Len(df) THEN groups
    ELSE IF i \in processed
         THEN GreedyScan(df, vocabulary, threshold, i + 1, groups, processed)
    ELSE LET similar_indices == SimilarIndices(df, vocabulary, threshold, i)
             group == SortedSeq(similar_indices \ processed)
         IN  IF Cardinality(similar_indices) > 1 /\ Len(group) > 1
             THEN GreedyScan(df, vocabulary, threshold, i + 1,
                             Append(groups, group), processed \cup Range(group))
             ELSE GreedyScan(df, vocabulary, threshold, i + 1, groups, processed)

\* BeliefMerger._find_duplicates: the groups it returns and the vectorizer
\* it leaves in the instance
FindDuplicates(merger, df) ==
    IF Len(df) < 2
    THEN [groups |-> <<>>, vectorizer |-> merger.vectorizer]
    ELSE IF FitFails(Statements(df))
    THEN [groups |-> <<>>, vectorizer |-> merger.vectorizer]
    ELSE LET vec == FitTransform(merger.vectorizer, Statements(df), MergerMaxFeatures)
         IN  [groups |-> GreedyScan(df, vec.vocabulary_, merger.similarity_threshold,
                                    1, <<>>, {}),
              vectorizer |-> vec]


\* ------------------------------------------------------- DataFrame objects
\* a working frame that is the caller's own object (result_df = df)
DfNoCopy(df) == [rows |-> df, is_input |-> TRUE]

\* df.copy(): a working frame that is a new object with the rows of df
DfCopy(df) == [rows |-> df, is_input |-> FALSE]

\* the caller's collection after a call that wrote `rows` into its working
\* frame `work`: the writes show in it when the working frame is its object
InputAfter(df, work, rows) == IF work.is_input THEN rows ELSE df


\* -------------------------------------------------- consolidation policies
\* the columns of the input collection
InputFields ==
    {"belief_id", "discovery_level", "statement_text", "importance",
     "conviction_score", "parent_hint", "parent_belief_id"}

\* f'dup_{group_id+1:04d}' for the group enumerate() numbers group_id = g-1
DupId(g) == g

\* the rows of df at the positions of indices, in that order (df.iloc[indices])
Iloc(df, indices) == [k \in DOMAIN indices |-> df[indices[k]]]

Column(df, field) == [i \in DOMAIN df |-> df[i][field]]

\* result_df of _keep_all_with_tags before the tagging loop: a copy with the
\* three reinforcement columns at their defaults
WithDefaultTags(b) ==
    [belief_id |-> b.belief_id, discovery_level |-> b.discovery_level,
     statement_text |-> b.statement_text, importance |-> b.importance,
     conviction_score |-> b.conviction_score, parent_hint |-> b.parent_hint,
     parent_belief_id |-> b.parent_belief_id,
     duplicate_group_id |-> NoId, reinforcement_levels |-> <<>>,
     reinforcement_count |-> 1]

\* a tagging that counts the other instances only
TagRowCountOthers(b, g, levels, count) ==
    [b EXCEPT !.duplicate_group_id = DupId(g),
              !.reinforcement_levels = Sorted(levels),
              !.reinforcement_count = count - 1]

\* the three result_df.at[idx, ...] assignments for one row of a group
TagRow(b, g, levels, count) ==
    [b EXCEPT !.duplicate_group_id = DupId(g),
              !.reinforcement_levels = Sorted(levels),
              !.reinforcement_count = count]

RECURSIVE TagGroups(_, _, _, _)
\* the loop "for group_id, indices in enumerate(duplicate_groups)" of
\* _keep_all_with_tags, from group g on
TagGroups(result, mapping, duplicate_groups, g) ==
    IF g > Len(duplicate_groups) THEN [result_df |-> result, mapping_df |-> mapping]
    ELSE LET indices == duplicate_groups[g]
             levels == Column(Iloc(result, indices), "discovery_level")
             tagged == [p \in DOMAIN result |->
                          IF p \in Range(indices)
                          THEN TagRow(result[p], g, levels, Len(indices))
                          ELSE result[p]]
             records == [k \in DOMAIN indices |->
                          [belief_id |-> tagged[indices[k]].belief_id,
                           duplicate_group_id |-> DupId(g),
                           is_primary |-> indices[k] = indices[1],
                           reinforcement_count |-> Len(indices)]]
         IN  TagGroups(tagged, mapping \o records, duplicate_groups, g + 1)

\* a keep_all that tags the first member of each group and drops the others
KeepAllDropOthers(df, duplicate_groups) ==
    LET r == TagGroups([p \in DOMAIN df |-> WithDefaultTags(df[p])], <<>>,
                       duplicate_groups, 1)
        dropped == UNION {Range(Tail(duplicate_groups[g])) : g \in DOMAIN duplicate_groups}
    IN  [result_df |-> Iloc(r.result_df, SortedSeq(DOMAIN df \ dropped)),
         mapping_df |-> r.mapping_df, df_after |-> df]

\* BeliefMerger._keep_all_with_tags
KeepAllWithTags(df, duplicate_groups) ==
    LET work == DfCopy(df)
        r == TagGroups([p \in DOMAIN work.rows |-> WithDefaultTags(work.rows[p])],
                       <<>>, duplicate_groups, 1)
    IN  [result_df |-> r.result_df, mapping_df |-> r.mapping_df,
         df_after |-> InputAfter(df, work, r.result_df)]

\* an ideal level on the scale of the importance, not reversed
GetIdealLevelNotReversed(importance) == importance

\* BeliefMerger._get_ideal_level
GetIdealLevel(importance) == 11 - importance

\* score = conviction_score * (1 / (1 + abs(discovery_level - ideal_level))),
\* kept as the fraction num/den of hundredths
Score(belief) ==
    [num |-> belief.conviction_score,
     den |-> 1 + Abs(belief.discovery_level - GetIdealLevel(belief.importance))]

ScoreGT(s, t) == s.num * t.den > t.num * s.den

RECURSIVE ArgMaxFrom(_, _, _)
ArgMaxFrom(scores, k, best) ==
    IF k > Len(scores) THEN best
    ELSE ArgMaxFrom(scores, k + 1, IF ScoreGT(scores[k], scores[best]) THEN k ELSE best)

\* np.argmax(scores): the first position of a maximal score
ArgMax(scores) == ArgMaxFrom(scores, 2, 1)

RECURSIVE BestFitGroups(_, _, _, _, _)
\* the loop over the groups of _keep_best_fit, from group g on
BestFitGroups(df, indices_to_keep, mapping, duplicate_groups, g) ==
    IF g > Len(duplicate_groups)
    THEN [indices_to_keep |-> indices_to_keep, mapping_df |-> mapping]
    ELSE LET indices == duplicate_groups[g]
             scores == [k \in DOMAIN indices |-> Score(df[indices[k]])]
             best_idx == indices[ArgMax(scores)]
             indices_to_remove == {idx \in Range(indices) : idx # best_idx}
             records == [k \in DOMAIN indices |->
                          [belief_id |-> df[indices[k]].belief_id,
                           duplicate_group_id |-> DupId(g),
                           kept_belief_id |-> df[best_idx].belief_id,
                           is_primary |-> indices[k] = best_idx,
                           score |-> scores[k]]]
         IN  BestFitGroups(df, indices_to_keep \ indices_to_remove,
                           mapping \o records, duplicate_groups, g + 1)

\* BeliefMerger._keep_best_fit
KeepBestFit(df, duplicate_groups) ==
    LET r == BestFitGroups(df, DOMAIN df, <<>>, duplicate_groups, 1)
    IN  [result_df |-> Iloc(df, SortedSeq(r.indices_to_keep)),
         mapping_df |-> r.mapping_df, df_after |-> df]


Count(s, v) == Cardinality({k \in DOMAIN s : s[k] = v})

\* Series.mode().iloc[0]: the smallest of the most frequent values
Mode(s) ==
    Min({v \in Range(s) : \A w \in Range(s) : Count(s, w) <= Count(s, v)})

\* Series.mean() of hundredths, kept as the fraction num/den
Mean(s) == [num |-> SumSeq(s), den |-> Len(s)]

\* a merged record that takes the identity of the last member of its group
MergedBeliefLastId(df, indices) ==
    LET group_df == Iloc(df, indices)
    IN  [belief_id |-> df[indices[Len(indices)]].belief_id,
         discovery_level |-> Mode(Column(group_df, "discovery_level")),
         statement_text |-> group_df[1].statement_text,
         importance |-> Mode(Column(group_df, "importance")),
         conviction_score |-> Mean(Column(group_df, "conviction_score")),
         parent_hint |-> group_df[1].parent_hint,
         parent_belief_id |-> NoId,
         reinforcement_count |-> Len(indices),
         reinforcement_levels |-> Sorted(Column(group_df, "discovery_level"))]

\* the dict "merged" _merge_duplicates builds for one group
MergedBelief(df, indices) ==
    LET group_df == Iloc(df, indices)
    IN  [belief_id |-> df[indices[1]].belief_id,
         discovery_level |-> Mode(Column(group_df, "discovery_level")),
         statement_text |-> group_df[1].statement_text,
         importance |-> Mode(Column(group_df, "importance")),
         conviction_score |-> Mean(Column(group_df, "conviction_score")),
         parent_hint |-> group_df[1].parent_hint,
         parent_belief_id |-> NoId,
         reinforcement_count |-> Len(indices),
         reinforcement_levels |-> Sorted(Column(group_df, "discovery_level"))]

\* a row of kept_df: the input row with reinforcement_count = 1 and
\* reinforcement_levels = str(discovery_level)
KeptBelief(b) ==
    [belief_id |-> b.belief_id, discovery_level |-> b.discovery_level,
     statement_text |-> b.statement_text, importance |-> b.importance,
     conviction_score |-> b.conviction_score, parent_hint |-> b.parent_hint,
     parent_belief_id |-> b.parent_belief_id,
     reinforcement_count |-> 1, reinforcement_levels |-> <<b.discovery_level>>]

RECURSIVE MergeGroups(_, _, _, _, _, _)
\* the loop over the groups of _merge_duplicates, from group g on
MergeGroups(df, indices_to_keep, merged_beliefs, mapping, duplicate_groups, g) ==
    IF g > Len(duplicate_groups)
    THEN [indices_to_keep |-> indices_to_keep, merged_beliefs |-> merged_beliefs,
          mapping_df |-> mapping]
    ELSE LET indices == duplicate_groups[g]
             merged == MergedBelief(df, indices)
             records == [k \in DOMAIN indices |->
                          [original_belief_id |-> df[indices[k]].belief_id,
                           merged_belief_id |-> merged.belief_id,
                           duplicate_group_id |-> DupId(g)]]
         IN  MergeGroups(df, indices_to_keep \ Range(indices),
                         Append(merged_beliefs, merged), mapping \o records,
                         duplicate_groups, g + 1)

\* a merge that leaves the members of the groups in the keep set
MergeDuplicatesKeepMembers(df, duplicate_groups) ==
    LET r == MergeGroups(df, DOMAIN df, <<>>, <<>>, duplicate_groups, 1)
        kept_df == [k \in DOMAIN df |-> KeptBelief(df[k])]
    IN  [result_df |-> kept_df \o r.merged_beliefs, mapping_df |-> r.mapping_df,
         df_after |-> df]

\* BeliefMerger._merge_duplicates
MergeDuplicates(df, duplicate_groups) ==
    LET r == MergeGroups(df, DOMAIN df, <<>>, <<>>, duplicate_groups, 1)
        kept == Iloc(df, SortedSeq(r.indices_to_keep))
        kept_df == [k \in DOMAIN kept |-> KeptBelief(kept[k])]
    IN  [result_df |-> kept_df \o r.merged_beliefs, mapping_df |-> r.mapping_df,
         df_after |-> df]

\* BeliefMerger.merge_beliefs: what it returns, the groups it found, the
\* vectorizer it leaves in the instance and the caller's collection after
\* the call
MergeBeliefs(merger, df, keep_strategy) ==
    IF df = <<>>
    THEN [result_df |-> df, mapping_df |-> <<>>, duplicate_groups |-> <<>>,
          vectorizer |-> merger.vectorizer, df_after |-> df]
    ELSE LET found == FindDuplicates(merger, df)
             out == IF keep_strategy = "all"
                    THEN KeepAllWithTags(df, found.groups)
                    ELSE IF keep_strategy = "best"
                    THEN KeepBestFit(df, found.groups)
                    ELSE MergeDuplicates(df, found.groups)
         IN  [result_df |-> out.result_df, mapping_df |-> out.mapping_df,
              duplicate_groups |-> found.groups, vectorizer |-> found.vectorizer,
              df_after |-> out.df_after]


\* ---------------------------------------------------------- BeliefLinker
\* BeliefLinker.__init__
NewLinker(similarity_threshold) ==
    [similarity_threshold |-> similarity_threshold, vectorizer |-> NewVectorizer]

\* "not parent_hint or pd.isna(parent_hint) or parent_hint.strip() == ''"
NoHint(parent_hint) == parent_hint = Blank

\* "hint.lower() in statement.lower()": the words of the hint are a run of
\* consecutive words of the statement (both written in ascending word order)
Contains(statement, hint) ==
    /\ hint \subseteq statement
    /\ hint # {} =>
         \A w \in statement : (Min(hint) < w /\ w < Max(hint)) => w \in hint

\* candidates that only need an importance not above the current one
CandidatesNotStrict(df, current_idx) ==
    SortedSeq({j \in DOMAIN df :
                 /\ j # current_idx
                 /\ df[j].importance <= df[current_idx].importance})

\* the positions of the candidate parents of row current_idx, ascending
Candidates(df, current_idx) ==
    SortedSeq({j \in DOMAIN df :
                 /\ j # current_idx
                 /\ df[j].importance < df[current_idx].importance})

RECURSIVE ArgMaxSimFrom(_, _, _, _)
ArgMaxSimFrom(hint_vector, vectors, k, best) ==
    IF k > Len(vectors) THEN best
    ELSE ArgMaxSimFrom(hint_vector, vectors, k + 1,
                       IF CosineGT(hint_vector, vectors[k], vectors[best])
                       THEN k ELSE best)

RECURSIVE ArgMaxSimLastFrom(_, _, _, _)
ArgMaxSimLastFrom(hint_vector, vectors, k, best) ==
    IF k > Len(vectors) THEN best
    ELSE ArgMaxSimLastFrom(hint_vector, vectors, k + 1,
                           IF CosineGT(hint_vector, vectors[best], vectors[k])
                           THEN best ELSE k)

\* an argmax that returns the last candidate of maximal similarity
ArgMaxSimLast(hint_vector, vectors) == ArgMaxSimLastFrom(hint_vector, vectors, 2, 1)

\* np.argmax(similarities): the first candidate of maximal similarity
ArgMaxSim(hint_vector, vectors) == ArgMaxSimFrom(hint_vector, vectors, 2, 1)

\* a fallback that searches every row of the collection
FallbackParentAnyRow(parent_hint, df, candidates) ==
    LET hits == {j \in DOMAIN df : Contains(df[j].statement_text, parent_hint)}
    IN  IF hits = {} THEN NoId ELSE df[Min(hits)].belief_id

\* the "except:" branch of _find_parent
FallbackParent(parent_hint, df, candidates) ==
    LET hits == {k \in DOMAIN candidates :
                    Contains(df[candidates[k]].statement_text, parent_hint)}
    IN  IF hits = {} THEN NoId ELSE df[candidates[Min(hits)]].belief_id

\* the "try:" branch of _find_parent once fit_transform has succeeded
SimilarityParent(parent_hint, df, candidates, vocabulary, threshold) ==
    LET hint_vector == Vector(parent_hint, vocabulary)
        vectors == [k \in DOMAIN candidates |->
                      Vector(df[candidates[k]].statement_text, vocabulary)]
        best_idx == ArgMaxSim(hint_vector, vectors)
    IN  IF CosineGE(hint_vector, vectors[best_idx], threshold)
        THEN df[candidates[best_idx]].belief_id
        ELSE NoId

\* the texts _find_parent vectorizes: the hint, then the candidates' statements
ParentTexts(parent_hint, df, candidates) ==
    <<parent_hint>> \o [k \in DOMAIN candidates |-> df[candidates[k]].statement_text]

\* BeliefLinker._find_parent: the parent id (NoId for None) and the
\* vectorizer it leaves in the instance
FindParent(linker, parent_hint, df, current_idx) ==
    LET candidates == Candidates(df, current_idx)
        texts == ParentTexts(parent_hint, df, candidates)
    IN  IF candidates = <<>>
        THEN [parent_id |-> NoId, vectorizer |-> linker.vectorizer]
        ELSE IF FitFails(texts)
        THEN [parent_id |-> FallbackParent(parent_hint, df, candidates),
              vectorizer |-> linker.vectorizer]
        ELSE LET vec == FitTransform(linker.vectorizer, texts, LinkerMaxFeatures)
             IN  [parent_id |-> SimilarityParent(parent_hint, df, candidates,
                                                 vec.vocabulary_,
                                                 linker.similarity_threshold),
                  vectorizer |-> vec]

RECURSIVE LinkRows(_, _, _)
\* the loop "for idx, belief in result_df.iterrows()" of link_beliefs, from
\* row idx on
LinkRows(linker, result_df, idx) ==
    IF idx > Len(result_df)
    THEN [result_df |-> result_df, vectorizer |-> linker.vectorizer]
    ELSE IF NoHint(result_df[idx].parent_hint)
    THEN LinkRows(linker, result_df, idx + 1)
    ELSE LET found == FindParent(linker, result_df[idx].parent_hint, result_df, idx)
             linked == IF found.parent_id # NoId
                       THEN [result_df EXCEPT ![idx].parent_belief_id = found.parent_id]
                       ELSE result_df
         IN  LinkRows([linker EXCEPT !.vectorizer = found.vectorizer], linked, idx + 1)

\* children[node] of _validate_hierarchy: the ids of the beliefs whose parent
\* is node, in row order (<<>> when node is not a key of the dictionary)
Children(df, node) ==
    LET rows == SortedSeq({p \in DOMAIN df : /\ df[p].parent_belief_id # NoId
                                             /\ df[p].parent_belief_id = node})
    IN  [k \in DOMAIN rows |-> df[rows[k]].belief_id]

\* a test that takes every child that was visited before for a back edge
OnStackOrVisited(child, rec_stack) == TRUE

\* "elif child in rec_stack" of has_cycle
OnStack(child, rec_stack) == child \in rec_stack

RECURSIVE HasCycle(_, _, _, _)
RECURSIVE HasCycleChildren(_, _, _, _, _)
\* the loop "for child in children[node]" of has_cycle, from the k-th child
\* on; rec_stack holds node and the nodes above it
HasCycleChildren(df, kids, k, visited, rec_stack) ==
    IF k > Len(kids) THEN [found |-> FALSE, visited |-> visited]
    ELSE IF kids[k] \notin visited
    THEN LET below == HasCycle(df, kids[k], visited, rec_stack)
         IN  IF below.found THEN below
             ELSE HasCycleChildren(df, kids, k + 1, below.visited, rec_stack)
    ELSE IF OnStack(kids[k], rec_stack)
    THEN [found |-> TRUE, visited |-> visited]
    ELSE HasCycleChildren(df, kids, k + 1, visited, rec_stack)

\* has_cycle(node, visited, rec_stack) of _validate_hierarchy: what it
\* returns and the visited set it leaves (rec_stack is the path to node, which
\* is what the shared set holds while node is being searched)
HasCycle(df, node, visited, rec_stack) ==
    HasCycleChildren(df, Children(df, node), 1,
                     visited \cup {node}, rec_stack \cup {node})

RECURSIVE ValidateRowsFreshVisited(_, _, _, _)
\* a loop that forgets the visited set between its searches
ValidateRowsFreshVisited(df, p, visited, warned) ==
    IF p > Len(df) THEN warned
    ELSE LET search == HasCycle(df, df[p].belief_id, {}, {})
         IN  ValidateRowsFreshVisited(df, p + 1, {},
                 IF search.found THEN Append(warned, df[p].belief_id) ELSE warned)

RECURSIVE ValidateRows(_, _, _, _)
\* the loop "for belief_id in df['belief_id']" of _validate_hierarchy from row
\* p on: the ids named by the warnings printed so far
ValidateRows(df, p, visited, warned) ==
    IF p > Len(df) THEN warned
    ELSE IF df[p].belief_id \in visited
    THEN ValidateRows(df, p + 1, visited, warned)
    ELSE LET search == HasCycle(df, df[p].belief_id, visited, {})
         IN  ValidateRows(df, p + 1, search.visited,
                 IF search.found THEN Append(warned, df[p].belief_id) ELSE warned)

\* BeliefLinker._validate_hierarchy: the belief ids of the "Circular
\* dependency detected involving ..." warnings it prints, in order
ValidateHierarchy(df) == ValidateRows(df, 1, {}, <<>>)

\* a link_beliefs that takes the parent from every belief it warns about
LinkBeliefsBreakCycles(linker, df) ==
    IF df = <<>>
    THEN [result_df |-> df, vectorizer |-> linker.vectorizer, df_after |-> df,
          warnings |-> <<>>]
    ELSE LET work == DfCopy(df)
             r == LinkRows(linker, work.rows, 1)
             warned == ValidateHierarchy(r.result_df)
             broken == [p \in DOMAIN r.result_df |->
                          IF r.result_df[p].belief_id \in Range(warned)
                          THEN [r.result_df[p] EXCEPT !.parent_belief_id = NoId]
                          ELSE r.result_df[p]]
         IN  [result_df |-> broken, vectorizer |-> r.vectorizer,
              df_after |-> InputAfter(df, work, broken),
              warnings |-> warned]

\* BeliefLinker.link_beliefs: the collection it returns, the vectorizer it
\* leaves in the instance, the caller's collection after the call and the
\* warnings _validate_hierarchy prints on the way
LinkBeliefs(linker, df) ==
    IF df = <<>>
    THEN [result_df |-> df, vectorizer |-> linker.vectorizer, df_after |-> df,
          warnings |-> <<>>]
    ELSE LET work == DfCopy(df)
             r == LinkRows(linker, work.rows, 1)
         IN  [result_df |-> r.result_df, vectorizer |-> r.vectorizer,
              df_after |-> InputAfter(df, work, r.result_df),
              warnings |-> ValidateHierarchy(r.result_df)]


\* -------------------------------------------- BeliefLinker: hierarchy stats
\* hierarchy_stats = {} of main: no statistics yet
NoStats == [total_beliefs |-> 0, has_parent |-> 0, is_parent |-> 0,
            root_beliefs |-> 0, leaf_beliefs |-> 0, depths |-> <<>>,
            max_depth |-> 0, avg_depth |-> [num |-> 0, den |-> 1],
            connectivity |-> [num |-> 0, den |-> 1]]

\* BeliefGraph.__init__: self.graph = None
NoGraph == [built |-> FALSE, nodes |-> {}, attrs |-> <<>>, edges |-> {},
            weight |-> <<>>]

\* the {} get_graph_stats returns without a graph
NoGraphStats == [nodes |-> 0, edges |-> 0, root_nodes |-> 0, leaf_nodes |-> 0]

\* the {} analyze returns for an empty collection
NoMetrics == [empty |-> TRUE, graph_stats |-> NoGraphStats]

\* the positions of the rows that carry this belief id
RowsWithId(df, belief_id) == {p \in DOMAIN df : df[p].belief_id = belief_id}

\* df['parent_belief_id'].dropna(): the parent ids that are set
ParentIds(df) == {df[p].parent_belief_id : p \in DOMAIN df} \ {NoId}

\* a depth that tells only whether the belief has a parent
GetDepthOneHop(belief_id, df, hops) ==
    IF RowsWithId(df, belief_id) = {} THEN [raised |-> FALSE, depth |-> 0]
    ELSE LET parent_id == df[Min(RowsWithId(df, belief_id))].parent_belief_id
         IN  [raised |-> FALSE, depth |-> IF parent_id = NoId THEN 0 ELSE 1]

RECURSIVE GetDepth(_, _, _)
\* get_depth(belief_id, df) at recursion depth `hops`: the depth it returns,
\* or raised when the recursion does not end (a chain that is still on a row
\* of df after Len(df) hops is on a row it has been on: RecursionError)
GetDepth(belief_id, df, hops) ==
    IF RowsWithId(df, belief_id) = {} THEN [raised |-> FALSE, depth |-> 0]
    ELSE IF hops >= Len(df) THEN [raised |-> TRUE, depth |-> 0]
    ELSE LET parent_id == df[Min(RowsWithId(df, belief_id))].parent_belief_id
         IN  IF parent_id = NoId THEN [raised |-> FALSE, depth |-> 0]
             ELSE LET up == GetDepth(parent_id, df, hops + 1)
                  IN  [raised |-> up.raised, depth |-> 1 + up.depth]

\* a connectivity that is the plain quotient
ConnectivityUnscaled(has_parent, total) ==
    IF total > 0 THEN [num |-> has_parent, den |-> total]
    ELSE [num |-> 0, den |-> 1]

\* "(has_parent / total * 100) if total > 0 else 0", as the fraction num/den
Connectivity(has_parent, total) ==
    IF total > 0 THEN [num |-> has_parent * 100, den |-> total]
    ELSE [num |-> 0, den |-> 1]

\* BeliefLinker.get_hierarchy_stats: the dictionary it returns (with the list
\* of depths it is computed from), or raised
GetHierarchyStats(df) ==
    LET total == Len(df)
        has_parent == Cardinality({p \in DOMAIN df : df[p].parent_belief_id # NoId})
        is_parent == Cardinality({p \in DOMAIN df : df[p].belief_id \in ParentIds(df)})
        roots == Cardinality({p \in DOMAIN df : df[p].parent_belief_id = NoId})
        leaves == Cardinality({p \in DOMAIN df : df[p].belief_id \notin ParentIds(df)})
        found == [p \in DOMAIN df |-> GetDepth(df[p].belief_id, df, 0)]
        depths == [p \in DOMAIN df |-> found[p].depth]
    IN  IF \E p \in DOMAIN df : found[p].raised
        THEN [raised |-> TRUE, stats |-> NoStats]
        ELSE [raised |-> FALSE,
              stats |-> [total_beliefs |-> total,
                         has_parent |-> has_parent,
                         is_parent |-> is_parent,
                         root_beliefs |-> roots,
                         leaf_beliefs |-> leaves,
                         depths |-> depths,
                         max_depth |-> IF depths = <<>> THEN 0 ELSE Max(Range(depths)),
                         avg_depth |-> IF depths = <<>> THEN [num |-> 0, den |-> 1]
                                       ELSE Mean(depths),
                         connectivity |-> Connectivity(has_parent, total)]]


\* ------------------------------------------------------------ BeliefGraph
\* the attributes build_graph stores with the node of a belief
NodeAttrs(belief) ==
    [statement |-> belief.statement_text, importance |-> belief.importance,
     conviction |-> belief.conviction_score]

\* the last of the rows ps of the collection (a later add_node or add_edge
\* overwrites the attributes of an earlier one)
LastRow(ps) == Max(ps)

\* a build_graph whose edges run from the child to the parent
BuildGraphChildToParent(df) ==
    LET ids == {df[p].belief_id : p \in DOMAIN df}
        linked == {p \in DOMAIN df : df[p].parent_belief_id # NoId}
        edges == {<<df[p].belief_id, df[p].parent_belief_id>> : p \in linked}
    IN  [built |-> TRUE,
         nodes |-> ids \cup {e[2] : e \in edges},
         attrs |-> [n \in ids |->
                      NodeAttrs(df[LastRow({p \in DOMAIN df :
                                              df[p].belief_id = n})])],
         edges |-> edges,
         weight |-> [e \in edges |->
                       df[LastRow({p \in linked :
                                     /\ df[p].parent_belief_id = e[2]
                                     /\ df[p].belief_id = e[1]})].conviction_score]]

\* BeliefGraph.build_graph: the DiGraph G. add_node makes one node per belief
\* id; add_edge makes the edge parent -> child and, as networkx does, a node
\* for an end of the edge that is not a node yet.
BuildGraph(df) ==
    LET ids == {df[p].belief_id : p \in DOMAIN df}
        linked == {p \in DOMAIN df : df[p].parent_belief_id # NoId}
        edges == {<<df[p].parent_belief_id, df[p].belief_id>> : p \in linked}
    IN  [built |-> TRUE,
         nodes |-> ids \cup {e[1] : e \in edges},
         attrs |-> [n \in ids |->
                      NodeAttrs(df[LastRow({p \in DOMAIN df :
                                              df[p].belief_id = n})])],
         edges |-> edges,
         weight |-> [e \in edges |->
                       df[LastRow({p \in linked :
                                     /\ df[p].parent_belief_id = e[1]
                                     /\ df[p].belief_id = e[2]})].conviction_score]]

InDegree(G, n) == Cardinality({e \in G.edges : e[2] = n})
OutDegree(G, n) == Cardinality({e \in G.edges : e[1] = n})

\* BeliefGraph.find_root_beliefs / find_leaf_beliefs
FindRootBeliefs(G) == IF ~G.built THEN {} ELSE {n \in G.nodes : InDegree(G, n) = 0}
FindLeafBeliefs(G) == IF ~G.built THEN {} ELSE {n \in G.nodes : OutDegree(G, n) = 0}

\* BeliefGraph.get_graph_stats: the counts of the dictionary; raised when
\* nx.is_weakly_connected is asked about a graph without nodes
GetGraphStats(G) ==
    IF ~G.built THEN [raised |-> FALSE, graph_stats |-> NoGraphStats]
    ELSE IF G.nodes = {} THEN [raised |-> TRUE, graph_stats |-> NoGraphStats]
    ELSE [raised |-> FALSE,
          graph_stats |-> [nodes |-> Cardinality(G.nodes),
                           edges |-> Cardinality(G.edges),
                           root_nodes |-> Cardinality(FindRootBeliefs(G)),
                           leaf_nodes |-> Cardinality(FindLeafBeliefs(G))]]

\* an analyze without the "if df is None or df.empty" guard
AnalyzeUnguarded(df) ==
    LET got == GetGraphStats(BuildGraph(df))
    IN  [raised |-> got.raised,
         metrics |-> IF got.raised THEN NoMetrics
                     ELSE [empty |-> FALSE, graph_stats |-> got.graph_stats]]

\* BeliefGraphMetrics.analyze: {} for an empty collection, else the metrics
\* of the graph it builds in a BeliefGraph of its own
Analyze(df) ==
    IF df = <<>> THEN [raised |-> FALSE, metrics |-> NoMetrics]
    ELSE LET got == GetGraphStats(BuildGraph(df))
         IN  [raised |-> got.raised,
              metrics |-> IF got.raised THEN NoMetrics
                          ELSE [empty |-> FALSE, graph_stats |-> got.graph_stats]]


\* ------------------------------------------------------------------ state
VARIABLES
    df,                \* the caller's belief collection
    merger,            \* the BeliefMerger instance
    linker,            \* the BeliefLinker instance
    duplicate_groups,  \* the groups of the last _find_duplicates on df
    result_df,         \* the collection the last operation returned
    mapping_df,        \* the mapping the last merge_beliefs returned
    last_op,           \* the last operation run on df
    last_run,          \* the last _find_duplicates run on df
    prev_run,          \* the _find_duplicates run on df before that one
    stage,             \* the pipeline stage df is handed to
    hierarchy_stats,   \* what the last get_hierarchy_stats returned
    graph,             \* BeliefGraph.graph
    prev_graph,        \* BeliefGraph.graph before the last build_graph
    graph_metrics,     \* what the last BeliefGraphMetrics.analyze returned
    raised,            \* the last operation ended in an exception
    warnings,          \* the belief ids the last link_beliefs warned about
    extractor          \* the MultiLevelExtractor and the extraction it runs

vars == <<df, merger, linker, duplicate_groups, result_df, mapping_df,
          last_op, last_run, prev_run, stage, hierarchy_stats, graph,
          prev_graph, graph_metrics, raised, warnings, extractor>>

\* the variables of the analysis stage
analysis == <<hierarchy_stats, graph, prev_graph, graph_metrics, raised>>

InitAnalysis ==
    /\ hierarchy_stats = NoStats
    /\ graph = NoGraph
    /\ prev_graph = NoGraph
    /\ graph_metrics = NoMetrics
    /\ raised = FALSE

\* MultiLevelExtractor.__init__ with max_workers = 1; no extraction is running
NoExtractor ==
    [max_workers |-> 1, classifier |-> <<>>, phase |-> "idle", level |-> 0,
     future_to_chunk |-> {}, beliefs |-> <<>>, all_beliefs |-> <<>>]

NoRun == [called |-> FALSE, threshold |-> 0, groups |-> <<>>, after_other |-> FALSE]

\* A belief as MultiLevelExtractor._to_dataframe builds it: belief_id b_000i
\* for the i-th row, parent_belief_id None.
Belief(i, text, importance, level, conviction, hint) ==
    [belief_id |-> i, discovery_level |-> level, statement_text |-> text,
     importance |-> importance, conviction_score |-> conviction,
     parent_hint |-> hint, parent_belief_id |-> NoId]

\* the collection whose i-th row has the profile f[i] = (text, importance,
\* level, conviction, hint)
Collection(f) ==
    [i \in DOMAIN f |-> Belief(i, f[i][1], f[i][2], f[i][3], f[i][4], f[i][5])]

\* ------------------------------------------------ duplicate detection runs
DupTexts == {{StopWord}, {1}, {2, 3}, {1, 2, 3}}
DedupThresholds == {50, 80, DefaultDedupThreshold}

\* another collection the same merger may be used on in between
OtherDf ==
    <<Belief(1, {1}, MaxImportance, 1, 90, Blank),
      Belief(2, {1, 4}, MaxImportance, 1, 90, Blank)>>

InitDup ==
    /\ \E k \in 0..MaxBeliefs :
          \E f \in [1..k -> DupTexts \X {MaxImportance} \X {1} \X {90} \X {Blank}] :
             df = Collection(f)
    /\ merger \in {NewMerger(t) : t \in DedupThresholds}
    /\ linker = NewLinker(DefaultLinkThreshold)
    /\ warnings = <<>>
    /\ extractor = NoExtractor
    /\ duplicate_groups = <<>>
    /\ result_df = <<>>
    /\ mapping_df = <<>>
    /\ last_op = "none"
    /\ last_run = NoRun
    /\ prev_run = NoRun
    /\ stage = "dedup"
    /\ InitAnalysis

\* the vectorizer holds a vocabulary that was not fitted on df
FittedElsewhere ==
    /\ merger.vectorizer.fitted
    /\ merger.vectorizer.vocabulary_ # FitVocabulary(Statements(df), MergerMaxFeatures)

\* merger._find_duplicates(df)
CallFindDuplicates ==
    \E found \in {FindDuplicates(merger, df)} :
        /\ merger' = [merger EXCEPT !.vectorizer = found.vectorizer]
        /\ duplicate_groups' = found.groups
        /\ last_run' = [called |-> TRUE, threshold |-> merger.similarity_threshold,
                        groups |-> found.groups, after_other |-> FittedElsewhere]
        /\ prev_run' = [last_run EXCEPT !.after_other = FALSE]
        /\ last_op' = "find"
        /\ UNCHANGED <<df, linker, warnings, extractor, result_df,
                       mapping_df, stage, analysis>>

\* merger._find_duplicates(other) on another collection
CallFindDuplicatesOther ==
    \E found \in {FindDuplicates(merger, OtherDf)} :
        /\ merger' = [merger EXCEPT !.vectorizer = found.vectorizer]
        /\ UNCHANGED <<df, linker, warnings, extractor, duplicate_groups,
                       result_df, mapping_df, last_op, last_run, prev_run,
                       stage, analysis>>

\* merger = BeliefMerger(similarity_threshold=t)
ConstructMerger ==
    \E t \in DedupThresholds :
        /\ merger' = NewMerger(t)
        /\ UNCHANGED <<df, linker, warnings, extractor, duplicate_groups,
                       result_df, mapping_df, last_op, last_run, prev_run,
                       stage, analysis>>

NextDup == CallFindDuplicates \/ CallFindDuplicatesOther \/ ConstructMerger

SpecDup == InitDup /\ [][NextDup]_vars


\* ------------------------------------------- claims on duplicate detection
Grouped(groups) == UNION {Range(groups[g]) : g \in DOMAIN groups}

\* C4: the groups _find_duplicates returns are pairwise disjoint, every group
\* has at least two distinct members, all of them rows of the collection,
\* and a collection of fewer than two beliefs yields no group.
C4_GroupsDisjointNoSingleton ==
    last_run.called =>
        /\ \A g \in DOMAIN duplicate_groups :
              /\ Len(duplicate_groups[g]) >= 2
              /\ Cardinality(Range(duplicate_groups[g])) = Len(duplicate_groups[g])
              /\ Range(duplicate_groups[g]) \subseteq DOMAIN df
        /\ \A g, h \in DOMAIN duplicate_groups :
              g # h => Range(duplicate_groups[g]) \cap Range(duplicate_groups[h]) = {}
        /\ Len(df) < 2 => duplicate_groups = <<>>

\* two groups were formed and the second anchor was similar to a member of
\* the first group, which the filter left out
C4_Witness ==
    /\ last_run.called
    /\ Len(duplicate_groups) = 2
    /\ \E i \in Range(duplicate_groups[2]) :
          SimilarIndices(df, merger.vectorizer.vocabulary_, last_run.threshold, i)
              \cap Range(duplicate_groups[1]) # {}

\* C5: two runs of _find_duplicates on the same ordered collection with the
\* same threshold return identical groups, whatever the vectorizer was
\* fitted on before the second run.
C5_FindDuplicatesDeterministic ==
    (last_run.called /\ prev_run.called /\ last_run.threshold = prev_run.threshold)
        => last_run.groups = prev_run.groups

\* the second run followed a run on another collection and found groups
C5_Witness ==
    /\ last_run.called /\ prev_run.called
    /\ last_run.threshold = prev_run.threshold
    /\ last_run.after_other
    /\ last_run.groups # <<>>

\* C6 as stated: raising the threshold never increases the number of grouped
\* beliefs nor the size of the largest group.
MaxGroupSize(groups) ==
    IF groups = <<>> THEN 0 ELSE Max({Len(groups[g]) : g \in DOMAIN groups})

C6_ThresholdMonotone ==
    (last_run.called /\ prev_run.called /\ prev_run.threshold <= last_run.threshold)
        => /\ Cardinality(Grouped(last_run.groups)) <= Cardinality(Grouped(prev_run.groups))
           /\ MaxGroupSize(last_run.groups) <= MaxGroupSize(prev_run.groups)

\* C6 amended: raising the threshold never adds a member to the group of the
\* first belief of the collection: when the first belief is grouped at the
\* higher threshold, it is grouped at the lower one with at least the same
\* members.
C6_FirstGroupShrinks ==
    (last_run.called /\ prev_run.called /\ prev_run.threshold <= last_run.threshold)
        => \A g \in DOMAIN last_run.groups :
              1 \in Range(last_run.groups[g]) =>
                 \E h \in DOMAIN prev_run.groups :
                    Range(last_run.groups[g]) \subseteq Range(prev_run.groups[h])

\* the group of the first belief lost a member when the threshold was raised
C6_Witness ==
    /\ last_run.called /\ prev_run.called
    /\ prev_run.threshold < last_run.threshold
    /\ \E g \in DOMAIN last_run.groups, h \in DOMAIN prev_run.groups :
          /\ 1 \in Range(last_run.groups[g])
          /\ Range(last_run.groups[g]) \subseteq Range(prev_run.groups[h])
          /\ Range(last_run.groups[g]) # Range(prev_run.groups[h])

\* the statements of rows i and j of df have cosine similarity >= t
SimilarRows(i, j, t) ==
    CosineGE(Features(df[i].statement_text), Features(df[j].statement_text), t)

\* C20: the first member of every group _find_duplicates returns is the
\* lowest row of the group and is the anchor: every other member has
\* similarity >= threshold with it. (Two other members need not be similar
\* to each other: see the witness.)
C20_MembersSimilarToAnchor ==
    last_run.called =>
        \A g \in DOMAIN duplicate_groups :
            /\ duplicate_groups[g][1] = Min(Range(duplicate_groups[g]))
            /\ \A j \in Range(duplicate_groups[g]) :
                  SimilarRows(duplicate_groups[g][1], j, last_run.threshold)

\* a group of three whose second and third member are both similar to the
\* anchor and not similar to each other
C20_Witness ==
    /\ last_run.called
    /\ \E g \in DOMAIN duplicate_groups :
          /\ Len(duplicate_groups[g]) = 3
          /\ ~SimilarRows(duplicate_groups[g][2], duplicate_groups[g][3],
                          last_run.threshold)

\* C24: when the vectorization fails (no statement has a feature), the
\* duplicates are decided by the substring test: two beliefs of which one
\* statement contains the other are both placed in a group.
C24_SubstringFallbackOnFailure ==
    (last_run.called /\ FitFails(Statements(df))) =>
        \A i, j \in DOMAIN df :
            (i # j /\ Contains(df[i].statement_text, df[j].statement_text)) =>
                {i, j} \subseteq Grouped(duplicate_groups)

\* C29: after _find_duplicates no two distinct beliefs that are both left
\* ungrouped have similarity >= threshold: a belief similar to one that
\* stays ungrouped is in a group.
C29_UngroupedPairsDissimilar ==
    last_run.called =>
        \A i, j \in DOMAIN df \ Grouped(duplicate_groups) :
            i # j => ~SimilarRows(i, j, last_run.threshold)

\* a belief stayed ungrouped although it is similar to a belief of the
\* collection: that belief was taken by the group of an earlier anchor
C29_Witness ==
    /\ last_run.called
    /\ \E i \in DOMAIN df \ Grouped(duplicate_groups) :
          \E j \in Grouped(duplicate_groups) :
             SimilarRows(i, j, last_run.threshold)


\* -------------------------------------------------------- merge_beliefs runs
MergeTexts == {{1}, {2}}

\* (importance, discovery_level, conviction_score) of the beliefs fed to
\* merge_beliefs; their best-fit scores are 0.90, 0.45, 0.45 and 0.30
MergeProfiles ==
    {<<MaxImportance, 1, 90>>, <<MaxImportance, 2, 90>>,
     <<MaxImportance - 1, 2, 45>>, <<MaxImportance - 1, 1, 60>>}

InitMerge ==
    /\ \E k \in 0..MaxMergeBeliefs :
          \E f \in [1..k -> MergeTexts \X MergeProfiles] :
             df = Collection([i \in 1..k |->
                     <<f[i][1], f[i][2][1], f[i][2][2], f[i][2][3], Blank>>])
    /\ merger = NewMerger(DefaultDedupThreshold)
    /\ linker = NewLinker(DefaultLinkThreshold)
    /\ warnings = <<>>
    /\ extractor = NoExtractor
    /\ duplicate_groups = <<>>
    /\ result_df = <<>>
    /\ mapping_df = <<>>
    /\ last_op = "none"
    /\ last_run = NoRun
    /\ prev_run = NoRun
    /\ stage = "dedup"
    /\ InitAnalysis

\* result_df, mapping_df = merger.merge_beliefs(df, keep_strategy)
CallMergeBeliefs(keep_strategy) ==
    \E out \in {MergeBeliefs(merger, df, keep_strategy)} :
        /\ stage = "dedup"
        /\ merger' = [merger EXCEPT !.vectorizer = out.vectorizer]
        /\ duplicate_groups' = out.duplicate_groups
        /\ result_df' = out.result_df
        /\ mapping_df' = out.mapping_df
        /\ last_op' = keep_strategy
        /\ df' = out.df_after
        /\ raised' = FALSE
        /\ UNCHANGED <<linker, warnings, extractor, last_run, prev_run,
                       stage, hierarchy_stats, graph, prev_graph,
                       graph_metrics>>

MergeAll == CallMergeBeliefs("all")
MergeBest == CallMergeBeliefs("best")
MergeMerge == CallMergeBeliefs("merge")

NextMerge == MergeAll \/ MergeBest \/ MergeMerge

SpecMerge == InitMerge /\ [][NextMerge]_vars


\* --------------------------------------- claims on the consolidation policies
Ungrouped == DOMAIN df \ Grouped(duplicate_groups)

InputPart(b) == [f \in InputFields |-> b[f]]

\* the rows of result_df that carry the belief id of row p of df
RowsOf(p) == {k \in DOMAIN result_df : result_df[k].belief_id = df[p].belief_id}

\* C7: under keep_all the output has exactly the input beliefs, in the same
\* order, with every input field unchanged.
C7_KeepAllKeepsEveryRecord ==
    last_op = "all" =>
        /\ Len(result_df) = Len(df)
        /\ \A p \in DOMAIN df : InputPart(result_df[p]) = InputPart(df[p])

\* keep_all ran on a collection with two duplicate groups
C7_Witness ==
    /\ last_op = "all"
    /\ Len(duplicate_groups) = 2
    /\ Len(result_df) = 4

\* C8: under keep_all every member of a group carries the id of its group and
\* the size of its group, distinct groups carry distinct ids, every other
\* belief carries no group id and count 1, and one count per group sums to
\* the number of grouped records.
C8_KeepAllTagsGroups ==
    last_op = "all" =>
        /\ \A g \in DOMAIN duplicate_groups : \A p \in Range(duplicate_groups[g]) :
              /\ result_df[p].duplicate_group_id = DupId(g)
              /\ result_df[p].reinforcement_count = Len(duplicate_groups[g])
        /\ \A g, h \in DOMAIN duplicate_groups :
              g # h => result_df[duplicate_groups[g][1]].duplicate_group_id
                          # result_df[duplicate_groups[h][1]].duplicate_group_id
        /\ \A p \in Ungrouped :
              /\ result_df[p].duplicate_group_id = NoId
              /\ result_df[p].reinforcement_count = 1
        /\ SumSeq([g \in DOMAIN duplicate_groups |->
                     result_df[duplicate_groups[g][1]].reinforcement_count])
              = Cardinality({p \in DOMAIN result_df :
                               result_df[p].duplicate_group_id # NoId})

\* keep_all tagged a group of three and left a belief untagged
C8_Witness ==
    /\ last_op = "all"
    /\ \E g \in DOMAIN duplicate_groups : Len(duplicate_groups[g]) = 3
    /\ \E p \in DOMAIN result_df : result_df[p].duplicate_group_id = NoId

\* C9: under merge the output has one record per ungrouped belief and one
\* per group; the record of a group carries the id of its first member and
\* the group size, no other member of the group is left, and every
\* ungrouped belief is there once, input fields unchanged, with count 1.
C9_MergeOneRecordPerGroup ==
    last_op = "merge" =>
        /\ Len(result_df) = Cardinality(Ungrouped) + Len(duplicate_groups)
        /\ \A g \in DOMAIN duplicate_groups :
              /\ Cardinality(RowsOf(duplicate_groups[g][1])) = 1
              /\ \A k \in RowsOf(duplicate_groups[g][1]) :
                    result_df[k].reinforcement_count = Len(duplicate_groups[g])
              /\ \A p \in Range(Tail(duplicate_groups[g])) : RowsOf(p) = {}
        /\ \A p \in Ungrouped :
              /\ Cardinality(RowsOf(p)) = 1
              /\ \A k \in RowsOf(p) :
                    /\ InputPart(result_df[k]) = InputPart(df[p])
                    /\ result_df[k].reinforcement_count = 1

\* merge collapsed a group and passed an ungrouped belief through
C9_Witness ==
    /\ last_op = "merge"
    /\ duplicate_groups # <<>>
    /\ Ungrouped # {}

\* conviction_score * 1/(1 + |discovery_level - (11 - importance)|) of b is
\* greater than that of c
BetterFit(b, c) ==
    b.conviction_score * (1 + Abs(c.discovery_level - (11 - c.importance)))
        > c.conviction_score * (1 + Abs(b.discovery_level - (11 - b.importance)))

\* the member of a group the keep_best rule names: of maximal score, the
\* earliest among equal maxima
IsBestFit(p, indices) ==
    /\ p \in Range(indices)
    /\ \A q \in Range(indices) :
          /\ ~BetterFit(df[q], df[p])
          /\ q < p => BetterFit(df[p], df[q])

Columns(b) == DOMAIN b

\* C11: under keep_best the survivor of every group carries a
\* reinforcement_count equal to the size of its group, and every ungrouped
\* survivor carries reinforcement_count 1.
C11_KeepBestReinforcementCount ==
    last_op = "best" =>
        /\ \A g \in DOMAIN duplicate_groups : \A p \in Range(duplicate_groups[g]) :
              \A k \in RowsOf(p) :
                 /\ "reinforcement_count" \in Columns(result_df[k])
                 /\ result_df[k].reinforcement_count = Len(duplicate_groups[g])
        /\ \A p \in Ungrouped : \A k \in RowsOf(p) :
              /\ "reinforcement_count" \in Columns(result_df[k])
              /\ result_df[k].reinforcement_count = 1

\* the original belief id a mapping row is about ('belief_id' under keep_all
\* and keep_best, 'original_belief_id' under merge)
MappingId(r) ==
    IF "belief_id" \in Columns(r) THEN r.belief_id ELSE r.original_belief_id

\* the mapping rows about row p of df
MappingRowsOf(p) ==
    {k \in DOMAIN mapping_df : MappingId(mapping_df[k]) = df[p].belief_id}

\* C12: under each policy the mapping has a row for every belief id of the
\* input, grouped or not, carrying its group id; under keep_best the row of
\* every removed belief references the id of the belief kept for its group.
C12_MappingCoversEveryBelief ==
    last_op \in {"all", "best", "merge"} =>
        /\ \A p \in DOMAIN df : MappingRowsOf(p) # {}
        /\ \A g \in DOMAIN duplicate_groups : \A p \in Range(duplicate_groups[g]) :
              \A k \in MappingRowsOf(p) :
                 /\ mapping_df[k].duplicate_group_id = DupId(g)
                 /\ (last_op = "best" /\ RowsOf(p) = {}) =>
                       \E q \in Range(duplicate_groups[g]) :
                          /\ RowsOf(q) # {}
                          /\ mapping_df[k].kept_belief_id = df[q].belief_id


\* ---------------------------------------------------------- link_beliefs runs
LinkTexts == {{1}, {1, 2, 3}, {StopWord}, {OtherStopWord}}
LinkHints == {Blank, {1}, {StopWord}}
LinkImportances == {MaxImportance - 1, MaxImportance}
LinkThresholds == {DefaultLinkThreshold, 100}

InitLink ==
    /\ \E k \in 0..MaxLinkBeliefs :
          \E f \in [1..k -> LinkTexts \X LinkImportances \X {1} \X {90} \X LinkHints] :
             df = Collection(f)
    /\ merger = NewMerger(DefaultDedupThreshold)
    /\ linker \in {NewLinker(t) : t \in LinkThresholds}
    /\ warnings = <<>>
    /\ extractor = NoExtractor
    /\ duplicate_groups = <<>>
    /\ result_df = <<>>
    /\ mapping_df = <<>>
    /\ last_op = "none"
    /\ last_run = NoRun
    /\ prev_run = NoRun
    /\ stage = "link"
    /\ InitAnalysis

\* result_df = linker.link_beliefs(df)
CallLinkBeliefs ==
    \E out \in {LinkBeliefs(linker, df)} :
        /\ stage = "link"
        /\ linker' = [linker EXCEPT !.vectorizer = out.vectorizer]
        /\ result_df' = out.result_df
        /\ last_op' = "link"
        /\ df' = out.df_after
        /\ warnings' = out.warnings
        /\ raised' = FALSE
        /\ UNCHANGED <<merger, duplicate_groups, mapping_df, last_run,
                       prev_run, stage, hierarchy_stats, graph, prev_graph,
                       graph_metrics, extractor>>

NextLink == CallLinkBeliefs

SpecLink == InitLink /\ [][NextLink]_vars

\* ------------------------------------------------------- claims on linking
\* the parent id recorded for the belief with this id (NoId when the id
\* names no belief)
ParentOf(rows, id) ==
    IF \E p \in DOMAIN rows : rows[p].belief_id = id
    THEN rows[CHOOSE p \in DOMAIN rows : rows[p].belief_id = id].parent_belief_id
    ELSE NoId

RECURSIVE AncestorAt(_, _, _)
\* the id reached from id after k parent hops (NoId when the chain ends)
AncestorAt(rows, id, k) ==
    IF id = NoId \/ k = 0 THEN id ELSE AncestorAt(rows, ParentOf(rows, id), k - 1)

\* C1: after link_beliefs on a collection with unique ids and blank parent
\* ids, no belief is reachable from itself along parent_belief_id.
C1_LinkedParentsAcyclic ==
    last_op = "link" =>
        \A p \in DOMAIN result_df : \A k \in 1..Len(result_df) :
            AncestorAt(result_df, result_df[p].belief_id, k) # result_df[p].belief_id

\* two beliefs of equal importance were linked, each with a hint that names
\* the other's statement
C1_Witness ==
    /\ last_op = "link"
    /\ \E p, q \in DOMAIN result_df :
          /\ p # q
          /\ result_df[p].parent_belief_id # NoId
          /\ result_df[q].parent_belief_id # NoId
          /\ df[p].importance = df[q].importance
          /\ Contains(df[q].statement_text, df[p].parent_hint)
          /\ Contains(df[p].statement_text, df[q].parent_hint)

\* C2: every parent id link_beliefs assigns is the id of another belief of
\* the collection with strictly lower importance; no belief is its own
\* parent and a belief of minimal importance gets no parent.
C2_ParentStrictlyMoreFoundational ==
    last_op = "link" =>
        \A p \in DOMAIN result_df :
            /\ result_df[p].parent_belief_id # result_df[p].belief_id
            /\ result_df[p].parent_belief_id # NoId =>
                  \E q \in DOMAIN df :
                     /\ q # p
                     /\ df[q].belief_id = result_df[p].parent_belief_id
                     /\ df[q].importance < df[p].importance
            /\ (\A q \in DOMAIN df : df[p].importance <= df[q].importance) =>
                  result_df[p].parent_belief_id = NoId

\* a parent was assigned on the substring fallback, to a belief whose own
\* statement contains its hint as well
C2_Witness ==
    /\ last_op = "link"
    /\ \E p \in DOMAIN result_df :
          /\ result_df[p].parent_belief_id # NoId
          /\ Features(df[p].parent_hint) = {}
          /\ Contains(df[p].statement_text, df[p].parent_hint)

\* the candidate the linking rule names for row p: of maximal hint-to-
\* statement similarity, the earliest among equal maxima
IsBestCandidate(q, p) ==
    LET cands == {r \in DOMAIN df : r # p /\ df[r].importance < df[p].importance}
        hint == Features(df[p].parent_hint)
        stmt(r) == Features(df[r].statement_text)
    IN  /\ q \in cands
        /\ \A r \in cands :
              /\ ~CosineGT(hint, stmt(r), stmt(q))
              /\ r < q => CosineGT(hint, stmt(q), stmt(r))

\* the vectorization of the hint of row p and its candidates succeeds
Vectorizable(p) ==
    \E r \in DOMAIN df :
        /\ r = p \/ df[r].importance < df[p].importance
        /\ Features(IF r = p THEN df[p].parent_hint ELSE df[r].statement_text) # {}

\* C3: with a non-empty hint, a non-empty candidate set and a successful
\* vectorization, the parent is the candidate of maximal similarity (the
\* earliest among equal maxima) when that similarity reaches the threshold,
\* and stays null otherwise.
C3_ParentIsFirstArgmaxAboveThreshold ==
    last_op = "link" =>
        \A p \in DOMAIN df : \A q \in DOMAIN df :
            (df[p].parent_hint # Blank /\ Vectorizable(p) /\ IsBestCandidate(q, p)) =>
                result_df[p].parent_belief_id
                    = IF CosineGE(Features(df[p].parent_hint),
                                  Features(df[q].statement_text),
                                  linker.similarity_threshold)
                      THEN df[q].belief_id
                      ELSE NoId

\* a belief with two candidates of equal, maximal similarity was linked
C3_Witness ==
    /\ last_op = "link"
    /\ \E p, q, r \in DOMAIN df :
          /\ q < r
          /\ df[p].parent_hint # Blank /\ Vectorizable(p)
          /\ IsBestCandidate(q, p)
          /\ r # p /\ df[r].importance < df[p].importance
          /\ ~CosineGT(Features(df[p].parent_hint), Features(df[q].statement_text),
                       Features(df[r].statement_text))
          /\ result_df[p].parent_belief_id = df[q].belief_id

\* the candidates of row p whose statement contains the hint of row p
ContainingCandidates(p) ==
    {q \in DOMAIN df : /\ q # p
                       /\ df[q].importance < df[p].importance
                       /\ Contains(df[q].statement_text, df[p].parent_hint)}

\* C25: with a non-empty hint, a non-empty candidate set and a failed
\* vectorization, the parent is the first candidate in collection order whose
\* statement contains the hint, and stays null when no candidate contains
\* it, whatever the threshold is.
C25_FallbackFirstContainingCandidate ==
    last_op = "link" =>
        \A p \in DOMAIN df :
            (/\ df[p].parent_hint # Blank
             /\ \E q \in DOMAIN df : q # p /\ df[q].importance < df[p].importance
             /\ ~Vectorizable(p)) =>
                result_df[p].parent_belief_id
                    = IF ContainingCandidates(p) = {} THEN NoId
                      ELSE df[Min(ContainingCandidates(p))].belief_id

\* with the threshold at 1.0, a belief whose vectorization failed got the
\* candidate that contains its hint, which comes after a candidate that does
\* not contain it
C25_Witness ==
    /\ last_op = "link"
    /\ linker.similarity_threshold = 100
    /\ \E p \in DOMAIN df :
          /\ df[p].parent_hint # Blank /\ ~Vectorizable(p)
          /\ ContainingCandidates(p) # {}
          /\ \E q \in DOMAIN df :
                /\ q < Min(ContainingCandidates(p))
                /\ q # p /\ df[q].importance < df[p].importance
          /\ result_df[p].parent_belief_id = df[Min(ContainingCandidates(p))].belief_id

\* ------------------------------------------------------- the pipeline runs
\* run_multilevel_extraction.main hands the raw collection to the merger,
\* what the merger returns to the linker, and what the linker returns to the
\* analysis; a stage that is switched off hands its input on as it is.
MaxPipeBeliefs == 3

Policies == {"all", "best", "merge"}

\* (statement, importance, discovery_level, conviction_score, parent_hint)
PipeProfiles ==
    {<<{3}, MaxImportance - 2, 1, 90, Blank>>,
     <<{1}, MaxImportance - 1, 1, 90, {3}>>,
     <<{1}, MaxImportance - 1, 2, 60, Blank>>,
     <<{2}, MaxImportance, 1, 90, {1}>>,
     <<{2}, MaxImportance, 2, 45, {StopWord}>>,
     <<{StopWord}, MaxImportance - 1, 1, 90, {StopWord}>>}

InitPipe ==
    /\ \E k \in 0..MaxPipeBeliefs :
          \E f \in [1..k -> PipeProfiles] : df = Collection(f)
    /\ merger = NewMerger(DefaultDedupThreshold)
    /\ linker = NewLinker(DefaultLinkThreshold)
    /\ warnings = <<>>
    /\ extractor = NoExtractor
    /\ duplicate_groups = <<>>
    /\ result_df = <<>>
    /\ mapping_df = <<>>
    /\ last_op = "none"
    /\ last_run = NoRun
    /\ prev_run = NoRun
    /\ stage = "dedup"
    /\ InitAnalysis

\* df_dedup, mapping_df = merger.merge_beliefs(df_raw, ...): what the merger
\* returned is what the linker is given
PassDedup ==
    /\ stage = "dedup" /\ last_op \in Policies
    /\ stage' = "link"
    /\ df' = result_df
    /\ last_op' = "pass"
    /\ raised' = FALSE
    /\ UNCHANGED <<merger, linker, warnings, extractor, duplicate_groups,
                   result_df, mapping_df, last_run, prev_run,
                   hierarchy_stats, graph, prev_graph, graph_metrics>>

\* df_linked = linker.link_beliefs(df_dedup): what the linker returned is
\* what the analysis is given
PassLinked ==
    /\ stage = "link" /\ last_op = "link"
    /\ stage' = "analyze"
    /\ df' = result_df
    /\ last_op' = "pass"
    /\ raised' = FALSE
    /\ UNCHANGED <<merger, linker, warnings, extractor, duplicate_groups,
                   result_df, mapping_df, last_run, prev_run,
                   hierarchy_stats, graph, prev_graph, graph_metrics>>

\* deduplication switched off (--no-dedup, or fewer than two beliefs):
\* df_dedup = df_raw
SkipDedup ==
    /\ stage = "dedup" /\ last_op = "none"
    /\ stage' = "link"
    /\ last_op' = "skip"
    /\ raised' = FALSE
    /\ UNCHANGED <<df, merger, linker, warnings, extractor, duplicate_groups,
                   result_df, mapping_df, last_run, prev_run,
                   hierarchy_stats, graph, prev_graph, graph_metrics>>

\* linking switched off (--no-linking): df_linked = df_dedup
SkipLink ==
    /\ stage = "link" /\ last_op \in {"pass", "skip"}
    /\ stage' = "analyze"
    /\ last_op' = "skip"
    /\ raised' = FALSE
    /\ UNCHANGED <<df, merger, linker, warnings, extractor, duplicate_groups,
                   result_df, mapping_df, last_run, prev_run,
                   hierarchy_stats, graph, prev_graph, graph_metrics>>

\* hierarchy_stats = linker.get_hierarchy_stats(df_linked)
CallGetHierarchyStats ==
    \E out \in {GetHierarchyStats(df)} :
        /\ stage = "analyze"
        /\ raised' = out.raised
        /\ hierarchy_stats' = IF out.raised THEN hierarchy_stats ELSE out.stats
        /\ last_op' = "stats"
        /\ UNCHANGED <<df, merger, linker, warnings, extractor,
                       duplicate_groups, result_df, mapping_df, last_run,
                       prev_run, stage, graph, prev_graph, graph_metrics>>

\* a build_graph that adds the collection to the graph it holds
CallBuildGraphIncremental ==
    \E G \in {BuildGraph(df)} :
        /\ stage = "analyze"
        /\ graph' = [built |-> TRUE,
                     nodes |-> graph.nodes \cup G.nodes,
                     attrs |-> [n \in DOMAIN graph.attrs \cup DOMAIN G.attrs |->
                                  IF n \in DOMAIN G.attrs THEN G.attrs[n]
                                  ELSE graph.attrs[n]],
                     edges |-> graph.edges \cup G.edges,
                     weight |-> [e \in graph.edges \cup G.edges |->
                                   IF e \in G.edges THEN G.weight[e]
                                   ELSE graph.weight[e]]]
        /\ prev_graph' = graph
        /\ raised' = FALSE
        /\ last_op' = "graph"
        /\ UNCHANGED <<df, merger, linker, warnings, extractor,
                       duplicate_groups, result_df, mapping_df, last_run,
                       prev_run, stage, hierarchy_stats, graph_metrics>>

\* graph_builder.build_graph(df)
CallBuildGraph ==
    /\ stage = "analyze"
    /\ graph' = BuildGraph(df)
    /\ prev_graph' = graph
    /\ raised' = FALSE
    /\ last_op' = "graph"
    /\ UNCHANGED <<df, merger, linker, warnings, extractor, duplicate_groups,
                   result_df, mapping_df, last_run, prev_run, stage,
                   hierarchy_stats, graph_metrics>>

\* graph_metrics = graph_metrics_analyzer.analyze(df_linked)
CallAnalyze ==
    \E out \in {Analyze(df)} :
        /\ stage = "analyze"
        /\ raised' = out.raised
        /\ graph_metrics' = IF out.raised THEN graph_metrics ELSE out.metrics
        /\ last_op' = "analyze"
        /\ UNCHANGED <<df, merger, linker, warnings, extractor,
                       duplicate_groups, result_df, mapping_df, last_run,
                       prev_run, stage, hierarchy_stats, graph, prev_graph>>

NextPipe ==
    \/ MergeAll \/ MergeBest \/ MergeMerge
    \/ CallLinkBeliefs
    \/ PassDedup \/ PassLinked
    \/ SkipDedup \/ SkipLink
    \/ CallGetHierarchyStats
    \/ CallBuildGraph
    \/ CallAnalyze

SpecPipe == InitPipe /\ [][NextPipe]_vars


\* ------------------------------------------------- claims on the pipeline
UniqueIds(rows) ==
    \A p, q \in DOMAIN rows : p # q => rows[p].belief_id # rows[q].belief_id

\* C13: when the belief ids of the input are unique, the belief ids of what
\* merge_beliefs returns are unique under each policy, and link_beliefs
\* returns the same belief ids in the same rows as it received.
C13_BeliefIdsStayUnique ==
    /\ (last_op \in Policies /\ UniqueIds(df)) => UniqueIds(result_df)
    /\ last_op = "link" =>
          /\ Column(result_df, "belief_id") = Column(df, "belief_id")
          /\ UniqueIds(df) => UniqueIds(result_df)

\* link_beliefs assigned a parent in a collection the merge policy had
\* collapsed a group of
C13_Witness ==
    /\ last_op = "link"
    /\ UniqueIds(df)
    /\ \E p \in DOMAIN result_df : result_df[p].parent_belief_id # NoId
    /\ \E p \in DOMAIN df :
          /\ "reinforcement_count" \in Columns(df[p])
          /\ "duplicate_group_id" \notin Columns(df[p])
          /\ df[p].reinforcement_count >= 2

\* C14: on an empty collection merge_beliefs returns the input and an empty
\* mapping, link_beliefs returns the input, get_hierarchy_stats returns zero
\* statistics and analyze returns an empty result; on a single belief there
\* is no group and no parent link; none of them raises.
C14_EmptyAndSinglePassThrough ==
    /\ (df = <<>> /\ last_op \in Policies) =>
          ~raised /\ result_df = df /\ mapping_df = <<>>
    /\ (df = <<>> /\ last_op = "link") => ~raised /\ result_df = df
    /\ (df = <<>> /\ last_op = "stats") =>
          /\ ~raised
          /\ hierarchy_stats.total_beliefs = 0 /\ hierarchy_stats.has_parent = 0
          /\ hierarchy_stats.is_parent = 0 /\ hierarchy_stats.root_beliefs = 0
          /\ hierarchy_stats.leaf_beliefs = 0 /\ hierarchy_stats.max_depth = 0
          /\ hierarchy_stats.avg_depth.num = 0
          /\ hierarchy_stats.connectivity.num = 0
    /\ (df = <<>> /\ last_op = "analyze") => ~raised /\ graph_metrics.empty
    /\ (Len(df) = 1 /\ last_op # "none") =>
          /\ ~raised
          /\ last_op \in Policies =>
                duplicate_groups = <<>> /\ Len(result_df) = 1 /\ mapping_df = <<>>
          /\ last_op = "link" => result_df[1].parent_belief_id = NoId
          /\ last_op = "analyze" =>
                ~graph_metrics.empty /\ graph_metrics.graph_stats.edges = 0

\* the empty collection reached the analysis and analyze returned its
\* empty result for it
C14_Witness ==
    /\ df = <<>>
    /\ stage = "analyze"
    /\ last_op = "analyze"
    /\ graph_metrics.empty

\* every parent id that is set names a belief of the collection
ParentsInCollection(rows) ==
    \A p \in DOMAIN rows :
        rows[p].parent_belief_id # NoId => RowsWithId(rows, rows[p].parent_belief_id) # {}

\* C15: for a linked collection (unique ids, every parent id names a belief
\* of it) the statistics satisfy root_beliefs + has_parent = total_beliefs
\* and leaf_beliefs + is_parent = total_beliefs, root_beliefs counts the
\* beliefs without parent and leaf_beliefs those that are nobody's parent;
\* in the graph built from it the nodes of in-degree 0 are the ids of the
\* beliefs without parent and the nodes of out-degree 0 the ids of the
\* beliefs that are nobody's parent.
C15_RootLeafConservation ==
    (stage = "analyze" /\ UniqueIds(df) /\ ParentsInCollection(df)) =>
        /\ (last_op = "stats" /\ ~raised) =>
              /\ hierarchy_stats.root_beliefs + hierarchy_stats.has_parent
                    = hierarchy_stats.total_beliefs
              /\ hierarchy_stats.leaf_beliefs + hierarchy_stats.is_parent
                    = hierarchy_stats.total_beliefs
              /\ hierarchy_stats.total_beliefs = Len(df)
              /\ hierarchy_stats.root_beliefs
                    = Cardinality({p \in DOMAIN df : df[p].parent_belief_id = NoId})
              /\ hierarchy_stats.leaf_beliefs
                    = Cardinality({p \in DOMAIN df :
                         \A q \in DOMAIN df : df[q].parent_belief_id # df[p].belief_id})
        /\ last_op = "graph" =>
              /\ FindRootBeliefs(graph)
                    = {df[p].belief_id : p \in {q \in DOMAIN df : df[q].parent_belief_id = NoId}}
              /\ FindLeafBeliefs(graph)
                    = {df[p].belief_id : p \in {q \in DOMAIN df :
                         \A r \in DOMAIN df : df[r].parent_belief_id # df[q].belief_id}}

\* the graph of a linked chain of three beliefs: one root, one leaf and a
\* belief that is neither
C15_Witness ==
    /\ stage = "analyze"
    /\ last_op = "graph"
    /\ \E n \in graph.nodes : InDegree(graph, n) = 1 /\ OutDegree(graph, n) = 1
    /\ Cardinality(FindRootBeliefs(graph)) = 1
    /\ Cardinality(FindLeafBeliefs(graph)) = 1

\* C19: merge_beliefs (each policy), link_beliefs, get_hierarchy_stats,
\* build_graph and analyze leave the collection they are given as it was:
\* the caller's collection changes only when the caller hands the returned
\* collection on to the next stage.
C19_NoStageMutatesInput == [][last_op' # "pass" => df' = df]_vars

\* link_beliefs was given a collection of several beliefs and returned one
\* with a parent id that the collection it was given does not have
C19_Witness ==
    /\ last_op = "link"
    /\ Len(df) >= 2
    /\ \E p \in DOMAIN df :
          /\ result_df[p].parent_belief_id # NoId
          /\ df[p].parent_belief_id = NoId
          /\ "duplicate_group_id" \in Columns(df[p])


\* ------------------------------------------------------ hierarchy depth runs
MaxChainBeliefs == 5

\* beliefs of importance 1 to 5, each but the most foundational one with a
\* hint that is the statement of the belief one rank more foundational
ChainRanks == 1..5

ChainProfiles ==
    {<<{i}, i, 1, 90, IF i = 1 THEN Blank ELSE {i - 1}>> : i \in ChainRanks}

InitDepth ==
    /\ \E k \in 0..MaxChainBeliefs :
          \E f \in [1..k -> ChainProfiles] : df = Collection(f)
    /\ merger = NewMerger(DefaultDedupThreshold)
    /\ linker = NewLinker(DefaultLinkThreshold)
    /\ warnings = <<>>
    /\ extractor = NoExtractor
    /\ duplicate_groups = <<>>
    /\ result_df = <<>>
    /\ mapping_df = <<>>
    /\ last_op = "none"
    /\ last_run = NoRun
    /\ prev_run = NoRun
    /\ stage = "link"
    /\ InitAnalysis

NextDepth == CallLinkBeliefs \/ PassLinked \/ CallGetHierarchyStats

SpecDepth == InitDepth /\ [][NextDepth]_vars

\* the parent chain of id leaves the collection or reaches a belief without
\* parent within Len(rows) hops
Acyclic(rows) ==
    \A p \in DOMAIN rows : AncestorAt(rows, rows[p].belief_id, Len(rows)) = NoId

\* the number of parent hops from the belief id to a belief without parent
HopsToRoot(rows, id) ==
    Min({k \in 0..Len(rows) : AncestorAt(rows, id, k + 1) = NoId})

\* the rows are one parent chain in collection order
IsChain(rows) ==
    \A p \in DOMAIN rows :
        rows[p].parent_belief_id = IF p = 1 THEN NoId ELSE rows[p - 1].belief_id

\* C16: on an acyclic linked collection the depth get_hierarchy_stats
\* computes for a belief is the number of parent hops from it to a belief
\* without parent, max_depth is the maximum of the depths and avg_depth their
\* mean; k beliefs in one parent chain have the depths 0, 1, ..., k-1 and
\* max_depth k-1.
C16_DepthIsHopsToRoot ==
    (stage = "analyze" /\ last_op = "stats" /\ UniqueIds(df) /\ Acyclic(df)) =>
        /\ ~raised
        /\ Len(hierarchy_stats.depths) = Len(df)
        /\ \A p \in DOMAIN df :
              hierarchy_stats.depths[p] = HopsToRoot(df, df[p].belief_id)
        /\ df # <<>> =>
              /\ \A p \in DOMAIN df :
                    hierarchy_stats.depths[p] <= hierarchy_stats.max_depth
              /\ \E p \in DOMAIN df :
                    hierarchy_stats.depths[p] = hierarchy_stats.max_depth
              /\ hierarchy_stats.avg_depth.num = SumSeq(hierarchy_stats.depths)
              /\ hierarchy_stats.avg_depth.den = Len(df)
        /\ (df # <<>> /\ IsChain(df)) =>
              /\ hierarchy_stats.depths = [p \in DOMAIN df |-> p - 1]
              /\ hierarchy_stats.max_depth = Len(df) - 1

\* five beliefs of importance 1, 2, 3, 4, 5 linked in one chain: the depths
\* are 0, 1, 2, 3, 4 and max_depth is 4
C16_Witness ==
    /\ stage = "analyze" /\ last_op = "stats"
    /\ Len(df) = 5
    /\ IsChain(df)
    /\ \A p \in DOMAIN df : df[p].importance = p
    /\ hierarchy_stats.depths = <<0, 1, 2, 3, 4>>
    /\ hierarchy_stats.max_depth = 4

\* the number of beliefs of the collection that have a parent
WithParent(rows) == Cardinality({p \in DOMAIN rows : rows[p].parent_belief_id # NoId})

\* C28 (as stated): connectivity is the ratio has_parent / total, a value
\* between 0 and 1, and 0 for an empty collection.
C28_ConnectivityIsRatio ==
    (stage = "analyze" /\ last_op = "stats" /\ ~raised) =>
        LET c == hierarchy_stats.connectivity
        IN  IF df = <<>> THEN c.num = 0
            ELSE /\ c.num * Len(df) = WithParent(df) * c.den
                 /\ 0 <= c.num /\ c.num <= c.den

\* C28 (amended): connectivity is the percentage has_parent / total * 100, a
\* value between 0 and 100, and 0 for an empty collection.
C28_ConnectivityIsPercentage ==
    (stage = "analyze" /\ last_op = "stats" /\ ~raised) =>
        LET c == hierarchy_stats.connectivity
        IN  IF df = <<>> THEN c.num = 0
            ELSE /\ c.num * Len(df) = 100 * WithParent(df) * c.den
                 /\ 0 <= c.num /\ c.num <= 100 * c.den

\* the statistics of three beliefs of which two have a parent
C28_Witness ==
    /\ stage = "analyze" /\ last_op = "stats" /\ ~raised
    /\ Len(df) = 3
    /\ WithParent(df) = 2
    /\ hierarchy_stats.connectivity = [num |-> 200, den |-> 3]


\* ------------------------------------------------------- graph analysis runs
\* analyze_beliefs.main reads a belief table from a file and builds the graph
\* of it: the belief ids are unique, the parent ids are whatever the file
\* holds (none, a belief of the table, the belief itself, an id of no belief)
MaxGraphBeliefs == 3

GraphConvictions == {45, 90}

\* the table whose i-th row has parent id f[i][1] and conviction f[i][2]
Table(f) ==
    [i \in DOMAIN f |->
        [Belief(i, {i}, MaxImportance, 1, f[i][2], Blank)
            EXCEPT !.parent_belief_id = f[i][1]]]

InitGraph ==
    /\ \E k \in 0..MaxGraphBeliefs :
          \E f \in [1..k -> (0..(MaxGraphBeliefs + 1)) \X GraphConvictions] :
             df = Table(f)
    /\ merger = NewMerger(DefaultDedupThreshold)
    /\ linker = NewLinker(DefaultLinkThreshold)
    /\ warnings = <<>>
    /\ extractor = NoExtractor
    /\ duplicate_groups = <<>>
    /\ result_df = <<>>
    /\ mapping_df = <<>>
    /\ last_op = "none"
    /\ last_run = NoRun
    /\ prev_run = NoRun
    /\ stage = "analyze"
    /\ InitAnalysis

\* graph = graph_builder.build_graph(df_with_metrics)
NextGraph == CallBuildGraph

SpecGraph == InitGraph /\ [][NextGraph]_vars

\* C17: for a collection with unique belief ids the graph build_graph returns
\* has the belief ids as its nodes and nothing else, one edge per belief
\* with a parent id, from the parent id to the belief id, weighted with the
\* conviction score of that belief, and no other edge.
C17_GraphOneNodePerBelief ==
    (last_op = "graph" /\ UniqueIds(df)) =>
        /\ graph.nodes = {df[p].belief_id : p \in DOMAIN df}
        /\ Cardinality(graph.nodes) = Len(df)
        /\ graph.edges = {<<df[p].parent_belief_id, df[p].belief_id>> :
                            p \in {q \in DOMAIN df : df[q].parent_belief_id # NoId}}
        /\ Cardinality(graph.edges)
              = Cardinality({p \in DOMAIN df : df[p].parent_belief_id # NoId})
        /\ \A p \in DOMAIN df :
              df[p].parent_belief_id # NoId =>
                 graph.weight[<<df[p].parent_belief_id, df[p].belief_id>>]
                    = df[p].conviction_score


\* -------------------------------------------------------- graph rebuild runs
\* one BeliefGraph is given one collection after another: between two
\* build_graph calls the caller reads another table of beliefs.
MaxRebuildBeliefs == 2

InitRebuild ==
    /\ \E k \in 0..MaxRebuildBeliefs :
          \E f \in [1..k -> (0..MaxRebuildBeliefs) \X {90}] : df = Table(f)
    /\ merger = NewMerger(DefaultDedupThreshold)
    /\ linker = NewLinker(DefaultLinkThreshold)
    /\ warnings = <<>>
    /\ extractor = NoExtractor
    /\ duplicate_groups = <<>>
    /\ result_df = <<>>
    /\ mapping_df = <<>>
    /\ last_op = "none"
    /\ last_run = NoRun
    /\ prev_run = NoRun
    /\ stage = "analyze"
    /\ InitAnalysis

\* df = pd.read_csv(beliefs_file): the caller holds another table (what the
\* graph was before the last build_graph is of no interest from here on)
ReadBeliefs ==
    /\ \E k \in 0..MaxRebuildBeliefs :
          \E f \in [1..k -> (0..MaxRebuildBeliefs) \X {90}] : df' = Table(f)
    /\ last_op' = "read"
    /\ prev_graph' = NoGraph
    /\ UNCHANGED <<merger, linker, warnings, extractor, duplicate_groups,
                   result_df, mapping_df, last_run, prev_run, stage,
                   hierarchy_stats, graph, graph_metrics, raised>>

NextRebuild == ReadBeliefs \/ CallBuildGraph

SpecRebuild == InitRebuild /\ [][NextRebuild]_vars

\* the parent -> child pairs of the collection
ParentEdges(rows) ==
    {<<rows[p].parent_belief_id, rows[p].belief_id>> :
        p \in {q \in DOMAIN rows : rows[q].parent_belief_id # NoId}}

\* C26: after any sequence of build_graph calls on one BeliefGraph, the nodes
\* and edges, and the roots, leaves and counts found in the graph, are those
\* of the collection of the last call: nothing is left of an earlier one.
C26_GraphRebuiltFromScratch ==
    (last_op = "graph") =>
        /\ graph.edges = ParentEdges(df)
        /\ graph.nodes = {df[p].belief_id : p \in DOMAIN df} \cup ParentIds(df)
        /\ FindRootBeliefs(graph) = graph.nodes \ {e[2] : e \in ParentEdges(df)}
        /\ FindLeafBeliefs(graph) = graph.nodes \ {e[1] : e \in ParentEdges(df)}
        /\ graph.nodes # {} =>
              /\ GetGraphStats(graph).graph_stats.nodes = Cardinality(graph.nodes)
              /\ GetGraphStats(graph).graph_stats.edges = Cardinality(ParentEdges(df))

\* the graph was built again, for a collection that lacks a node and an edge
\* of the graph the instance held before
C26_Witness ==
    /\ last_op = "graph"
    /\ prev_graph.built
    /\ prev_graph.nodes \ graph.nodes # {}
    /\ prev_graph.edges \ graph.edges # {}


\* ------------------------------------------------------- configuration runs
\* --dedup-threshold is any float the command line gives, and both
\* constructors take any similarity_threshold
MaxConfigBeliefs == 2

ConfigThresholds == {-10, 0, DefaultLinkThreshold, DefaultDedupThreshold, 100, 150}

InitConfig ==
    /\ \E k \in 0..MaxConfigBeliefs :
          \E f \in [1..k -> PipeProfiles] : df = Collection(f)
    /\ merger \in {NewMerger(t) : t \in ConfigThresholds}
    /\ linker \in {NewLinker(t) : t \in ConfigThresholds}
    /\ warnings = <<>>
    /\ extractor = NoExtractor
    /\ duplicate_groups = <<>>
    /\ result_df = <<>>
    /\ mapping_df = <<>>
    /\ last_op = "none"
    /\ last_run = NoRun
    /\ prev_run = NoRun
    /\ stage = "dedup"
    /\ InitAnalysis

NextConfig ==
    \/ MergeAll \/ MergeBest \/ MergeMerge
    \/ PassDedup \/ SkipDedup
    \/ CallLinkBeliefs

SpecConfig == InitConfig /\ [][NextConfig]_vars

\* a similarity threshold in (0, 1]
ValidThreshold(t) == 0 < t /\ t <= 100

\* C18: a BeliefMerger or BeliefLinker with a similarity threshold outside
\* (0, 1] does not come into being (its construction fails), and no
\* merge_beliefs or link_beliefs runs with such a threshold.
C18_ThresholdFailsFast ==
    /\ ValidThreshold(merger.similarity_threshold)
    /\ ValidThreshold(linker.similarity_threshold)
    /\ last_op \in Policies => ValidThreshold(merger.similarity_threshold)
    /\ last_op = "link" => ValidThreshold(linker.similarity_threshold)


\* ------------------------------------------------- hierarchy validation runs
\* link_beliefs is given a collection that carries parent ids already (a saved
\* collection that is linked again): any parent id, the belief's own and the
\* id of no belief among them. Belief 1 is the only belief of lower
\* importance, so the hint of belief 2, when it names the statement of
\* belief 1, moves the parent of belief 2 to it.
MaxCycleBeliefs == 4

CycleHints == {Blank, {1}}

PreLinked(i, parent_id, hint) ==
    [Belief(i, {i}, IF i = 1 THEN MaxImportance - 1 ELSE MaxImportance, 1, 90, hint)
        EXCEPT !.parent_belief_id = parent_id]

InitCycle ==
    /\ \E k \in 0..MaxCycleBeliefs :
          \E f \in [1..k -> 0..(MaxCycleBeliefs + 1)] : \E hint \in CycleHints :
             df = [i \in 1..k |->
                     PreLinked(i, f[i], IF i = 2 THEN hint ELSE Blank)]
    /\ merger = NewMerger(DefaultDedupThreshold)
    /\ linker = NewLinker(DefaultLinkThreshold)
    /\ warnings = <<>>
    /\ extractor = NoExtractor
    /\ duplicate_groups = <<>>
    /\ result_df = <<>>
    /\ mapping_df = <<>>
    /\ last_op = "none"
    /\ last_run = NoRun
    /\ prev_run = NoRun
    /\ stage = "link"
    /\ InitAnalysis

NextCycle == CallLinkBeliefs \/ PassLinked \/ CallGetHierarchyStats

SpecCycle == InitCycle /\ [][NextCycle]_vars

\* ------------------------------------------- claims on hierarchy validation
\* the belief with this id is its own ancestor along parent_belief_id
OnCycle(rows, id) ==
    \E k \in 1..Len(rows) : AncestorAt(rows, id, k) = id

\* the ids of the cycle the belief with this id is on
CycleOf(rows, id) == {AncestorAt(rows, id, k) : k \in 1..Len(rows)}

\* C21: link_beliefs prints a circular-dependency warning if and only if the
\* parent relation of the collection it returns has a cycle (a belief that
\* is its own parent included), whatever parent ids the collection carries.
C21_WarningIffCycle ==
    last_op = "link" =>
        (warnings # <<>>
            <=> \E p \in DOMAIN result_df : OnCycle(result_df, result_df[p].belief_id))

\* a cycle of three beliefs whose first row is not the first row of the
\* collection was warned about, and so was a belief that is its own parent
C21_Witness ==
    /\ last_op = "link"
    /\ \E p \in DOMAIN result_df :
          /\ p > 1
          /\ result_df[p].belief_id \in Range(warnings)
          /\ Cardinality(CycleOf(result_df, result_df[p].belief_id)) = 3
    /\ \E p \in DOMAIN result_df :
          /\ result_df[p].parent_belief_id = result_df[p].belief_id
          /\ result_df[p].belief_id \in Range(warnings)

\* C22: a detected cycle is reported only: link_beliefs raises nothing, the
\* collection it returns still holds the cycle, and every belief without a
\* usable hint keeps the parent id it came with.
C22_CycleDetectionAdvisory ==
    (last_op = "link" /\ warnings # <<>>) =>
        /\ ~raised
        /\ \A k \in DOMAIN warnings : OnCycle(result_df, warnings[k])
        /\ Len(result_df) = Len(df)
        /\ \A p \in DOMAIN df :
              (NoHint(df[p].parent_hint) \/ p = 1) =>
                  result_df[p].parent_belief_id = df[p].parent_belief_id

\* link_beliefs closed a cycle itself (it moved the parent of a belief to
\* belief 1, whose parent that belief was already) and warned about it
C22_Witness ==
    /\ last_op = "link" /\ warnings # <<>>
    /\ \E p \in DOMAIN df :
          /\ p > 1
          /\ df[p].parent_belief_id # 1
          /\ result_df[p].parent_belief_id = 1
          /\ result_df[1].parent_belief_id = result_df[p].belief_id

\* C23: get_hierarchy_stats ends with a result for every collection, one
\* whose parent relation has a cycle included.
C23_TraversalsTerminate ==
    last_op = "stats" => ~raised

\* C30: every warning names a belief that is on a cycle, and every cycle of
\* the parent relation is named by exactly one warning.
C30_OneWarningPerCycle ==
    last_op = "link" =>
        /\ \A k \in DOMAIN warnings : OnCycle(result_df, warnings[k])
        /\ \A p \in DOMAIN result_df :
              OnCycle(result_df, result_df[p].belief_id) =>
                  Cardinality({k \in DOMAIN warnings :
                                 warnings[k] \in CycleOf(result_df, result_df[p].belief_id)}) = 1

\* two distinct cycles, one of them of two beliefs, were warned about
C30_Witness ==
    /\ last_op = "link"
    /\ Len(warnings) = 2
    /\ \E k \in DOMAIN warnings :
          Cardinality(CycleOf(result_df, warnings[k])) = 2


\* ---------------------------------------------------------- extraction runs
\* extract_multilevel on one transcript: chunks_by_level has MaxLevels levels,
\* level l has MaxChunks + 1 - l chunks (coarser levels have fewer chunks). The
\* classifier's answer for a chunk (a belief or not) is fixed for the run.
MaxLevels == 2
MaxChunks == 3
MaxWorkers == 3

Levels == 1..MaxLevels

Chunks(level) == 1..(MaxChunks + 1 - level)

AllChunks == {lc \in Levels \X (1..MaxChunks) : lc[2] \in Chunks(lc[1])}

InitExtract ==
    /\ df = <<>>
    /\ \E w \in 1..MaxWorkers : \E answers \in [AllChunks -> BOOLEAN] :
          extractor = [max_workers |-> w, classifier |-> answers,
                       phase |-> "levels", level |-> 0, future_to_chunk |-> {},
                       beliefs |-> <<>>, all_beliefs |-> <<>>]
    /\ merger = NewMerger(DefaultDedupThreshold)
    /\ linker = NewLinker(DefaultLinkThreshold)
    /\ warnings = <<>>
    /\ duplicate_groups = <<>>
    /\ result_df = <<>>
    /\ mapping_df = <<>>
    /\ last_op = "none"
    /\ last_run = NoRun
    /\ prev_run = NoRun
    /\ stage = "dedup"
    /\ InitAnalysis

\* the variables an extraction step leaves alone
beside_extractor ==
    <<merger, linker, warnings, duplicate_groups, result_df, mapping_df,
      last_op, last_run, prev_run, stage, analysis>>

\* _process_single_chunk: the belief dictionary of the chunk, when the
\* classifier says it is a belief
ChunkBelief(level, chunk) == [discovery_level |-> level, chunk_id |-> chunk]

\* "belief = ...; if belief: beliefs.append(belief)" for this chunk
Collected(e, chunk) ==
    [e EXCEPT !.future_to_chunk = @ \ {chunk},
              !.beliefs = IF e.classifier[<<e.level, chunk>>]
                          THEN Append(@, ChunkBelief(e.level, chunk))
                          ELSE @]

\* the next level of "for level_num, chunks in sorted(chunks_by_level.items())"
\* enters _extract_from_chunks (with workers, every chunk is submitted)
ExtractFromChunks ==
    /\ extractor.phase = "levels" /\ extractor.level < MaxLevels
    /\ extractor' = [extractor EXCEPT !.phase = "chunks",
                                      !.level = @ + 1,
                                      !.future_to_chunk = Chunks(extractor.level + 1),
                                      !.beliefs = <<>>]
    /\ UNCHANGED <<df, beside_extractor>>

\* max_workers == 1: the chunks are processed in the order of the list
ProcessNextChunk ==
    /\ extractor.phase = "chunks" /\ extractor.max_workers = 1
    /\ extractor.future_to_chunk # {}
    /\ extractor' = Collected(extractor, Min(extractor.future_to_chunk))
    /\ UNCHANGED <<df, beside_extractor>>

\* max_workers > 1: as_completed yields the future of a chunk that a worker
\* has finished; a chunk has a worker when fewer than max_workers of the
\* chunks submitted before it are still unfinished
CollectCompleted ==
    /\ extractor.phase = "chunks" /\ extractor.max_workers > 1
    /\ \E chunk \in extractor.future_to_chunk :
          /\ Cardinality({c \in extractor.future_to_chunk : c < chunk})
                < extractor.max_workers
          /\ extractor' = Collected(extractor, chunk)
    /\ UNCHANGED <<df, beside_extractor>>

\* _extract_from_chunks returns: all_beliefs.extend(level_beliefs)
ExtendAllBeliefs ==
    /\ extractor.phase = "chunks" /\ extractor.future_to_chunk = {}
    /\ extractor' = [extractor EXCEPT !.phase = "levels",
                                      !.all_beliefs = @ \o extractor.beliefs,
                                      !.beliefs = <<>>]
    /\ UNCHANGED <<df, beside_extractor>>

\* _to_dataframe (_empty_dataframe without beliefs): the i-th belief of the
\* list gets belief_id b_000i; its statement is the text of its chunk
ToDataframe(all_beliefs) ==
    [i \in DOMAIN all_beliefs |->
        Belief(i, {all_beliefs[i].chunk_id}, MaxImportance,
               all_beliefs[i].discovery_level, 90, Blank)]

\* df_raw = extractor.extract_multilevel(...) returns
ReturnDataframe ==
    /\ extractor.phase = "levels" /\ extractor.level = MaxLevels
    /\ df' = ToDataframe(extractor.all_beliefs)
    /\ extractor' = [extractor EXCEPT !.phase = "idle"]
    /\ last_op' = "extract"
    /\ UNCHANGED <<merger, linker, warnings, duplicate_groups, result_df,
                   mapping_df, last_run, prev_run, stage, analysis>>

NextExtract ==
    \/ ExtractFromChunks
    \/ ProcessNextChunk
    \/ CollectCompleted
    \/ ExtendAllBeliefs
    \/ ReturnDataframe

SpecExtract == InitExtract /\ [][NextExtract]_vars

\* ------------------------------------------------------- claims on extraction
\* the chunks the classifier calls beliefs, in level order and, within a
\* level, in chunk order
RECURSIVE BeliefsInOrder(_, _, _)
BeliefsInOrder(classifier, level, chunk) ==
    IF level > MaxLevels THEN <<>>
    ELSE IF chunk \notin Chunks(level) THEN BeliefsInOrder(classifier, level + 1, 1)
    ELSE (IF classifier[<<level, chunk>>] THEN <<ChunkBelief(level, chunk)>> ELSE <<>>)
             \o BeliefsInOrder(classifier, level, chunk + 1)

\* C27: for a fixed transcript and fixed classifier answers, extract_multilevel
\* returns the same ordered collection for every worker count and every
\* completion order: the beliefs in level order and chunk order, with the
\* belief ids that order gives them.
C27_ExtractionOrderStable ==
    last_op = "extract" =>
        df = ToDataframe(BeliefsInOrder(extractor.classifier, 1, 1))


\* ----------------------------------------------------- the whole program
Init ==
    \/ InitDup \/ InitMerge \/ InitLink \/ InitPipe \/ InitDepth \/ InitGraph
    \/ InitConfig \/ InitCycle \/ InitRebuild \/ InitExtract

Next ==
    \/ NextDup \/ NextMerge \/ NextLink \/ NextPipe \/ NextDepth \/ NextGraph
    \/ NextConfig \/ NextCycle \/ NextRebuild \/ NextExtract

Spec == Init /\ [][Next]_vars

=============================================================================
